---- MODULE Spec2Model ----
(***************************************************************************)
(* Model of gacha-ping: the command handlers (src/handlers.ts), the group  *)
(* registry (src/db/index.ts over the tables of src/db/schema.ts) and the  *)
(* in-memory command timeouts (src/timeouts.ts).                           *)
(*                                                                         *)
(* A handler is an async function: the code between two awaits runs        *)
(* without interruption, and each awaited storage statement is one step.   *)
(* Several handler invocations may be in flight at once.                   *)
(***************************************************************************)
EXTENDS Integers, Sequences, FiniteSets, Bags, TLC

\* ------------------------------------------------------------------ bounds
NumProcs == 2       \* handler invocations that may be in flight at once
MaxRequests == 2    \* handler invocations started in one behaviour of Spec
SeqRequests == 4    \* handler invocations started in one behaviour of SpecSeq
TimeRequests == 2   \* handler invocations started in one behaviour of SpecTime
MaxFaults == 1      \* storage statements that fail in one behaviour
MaxTicks == 2       \* clock advances in one behaviour of SpecTime
ListRequests == 3   \* handler invocations started in one behaviour of SpecList
CompleteRequests == 3   \* handler invocations started in one behaviour of SpecComplete, SpecReuse
LiveRequests == 1       \* handler invocations started in one behaviour of SpecLive
ListTicks == 1      \* clock advances in one behaviour of SpecList
NumUsers == 2

\* --------------------------------------------------------- program constants
MinNameLen == 2
MaxNameLen == 32
CREATE_TIMEOUT == 300   \* the default of the create cooldown, in seconds
PING_TIMEOUT == 60     \* the default of the ping cooldown, in seconds
MsPerSecond == 1000

Procs == 1..NumProcs
Users == 1..NumUsers
\* the guild (server) ids; a group belongs to one guild
Guilds == {"S1", "S2"}

\* ------------------------------------------------------------------- names
\* A name is a sequence of characters; a character is written as a string,
\* "SP" the space and "TAB" the tab character.
Letters == {"a", "b", "Z"}
Digits == {"7"}
Whitespace == {"SP", "TAB"}
NameChars == Letters \cup Digits \cup Whitespace \cup {"-", "_", "!"}

RECURSIVE TrimStart(_)
TrimStart(s) ==
  IF s # <<>> /\ Head(s) \in Whitespace THEN TrimStart(Tail(s)) ELSE s

RECURSIVE TrimEnd(_)
TrimEnd(s) ==
  IF s # <<>> /\ s[Len(s)] \in Whitespace
  THEN TrimEnd(SubSeq(s, 1, Len(s) - 1))
  ELSE s

\* String.prototype.trim
Trim(s) == TrimEnd(TrimStart(s))

\* /^[a-zA-Z0-9\s\-_]+$/
validNameRegex(s) ==
  /\ Len(s) >= 1
  /\ \A i \in 1..Len(s) : s[i] \in Letters \cup Digits \cup Whitespace \cup {"-", "_"}

validateGroupName(s) ==
  IF Len(s) < MinNameLen \/ Len(s) > MaxNameLen THEN FALSE
  ELSE validNameRegex(s)

\* The names the requests of the model carry: a valid name, the same name
\* with a trailing space, a second valid name and a name that is too short.
NameAB == <<"a", "b">>
NameABsp == <<"a", "b", "SP">>
NameZ7 == <<"Z", "7">>
NameA == <<"a">>
\* a tab inside the name, a character outside the pattern, and names of 32
\* and of 33 characters
NameTab == <<"a", "TAB", "b">>
NameBang == <<"a", "!">>
NameMax == [i \in 1..MaxNameLen |-> "a"]
NameLong == [i \in 1..(MaxNameLen + 1) |-> "a"]
NameHyphen == <<"a", "-", "_", "SP", "7">>
Names == {NameAB, NameABsp, NameZ7, NameA, NameTab, NameBang, NameMax, NameLong,
          NameHyphen}

\* ------------------------------------------------------------------- state
VARIABLES
  groups,        \* rows of table groups: [id, name, guildId, creatorId, lastUsed]
  members,       \* rows of table group_members, a bag of [groupId, userId]
  userTimeouts,  \* the Map of timeouts.ts: <<userId, command>> -> Date.now() of the use
  now,           \* Date.now(), in milliseconds
  req,           \* the handler invocation running in each slot
  requestsLeft,  \* handler invocations that may still start
  faultsLeft,    \* storage statements that may still fail
  ticksLeft,     \* clock advances that may still happen
  fkOn,          \* whether the connection enforces foreign keys
  env            \* what the requests of this behaviour draw from:
                 \* [users, guilds, names, inFlight], and processEnv, the
                 \* environment variables the process was started with

vars == <<groups, members, userTimeouts, now, req, requestsLeft, faultsLeft,
          ticksLeft, fkOn, env>>

\* ---------------------------------------------------------- storage layer
MaxOf(S) == CHOOSE x \in S : \A y \in S : y <= x

\* id is INTEGER PRIMARY KEY (the rowid): one more than the largest id in use
NextId(gs) == IF gs = {} THEN 1 ELSE MaxOf({g.id : g \in gs}) + 1

GroupRow(id, name, guild, creator, t) ==
  [id |-> id, name |-> name, guildId |-> guild, creatorId |-> creator, lastUsed |-> t]

MemberRow(gid, u) == [groupId |-> gid, userId |-> u]

\* INSERT INTO groups ... RETURNING
InsertGroup(gs, name, guild, creator, t) ==
  gs \cup {GroupRow(NextId(gs), name, guild, creator, t)}

RowsByNameAnyGuild(gs, name, guild) == {g \in gs : g.name = name}

\* WHERE name = ? AND guild_id = ?
RowsByName(gs, name, guild) == {g \in gs : g.name = name /\ g.guildId = guild}

\* INSERT INTO group_members: the table has no key, so a row is always added
InsertMember(ms, gid, u) == ms (+) SetToBag({MemberRow(gid, u)})

\* the foreign key of group_members.group_id
MemberInsertAllowed(gs, gid, fk) == fk => \E g \in gs : g.id = gid

DeleteMemberAnyUser(ms, gid, u) ==
  [r \in {x \in DOMAIN ms : x.groupId # gid} |-> ms[r]]

DeleteMemberOthers(ms, gid, u) ==
  [r \in {x \in DOMAIN ms : x.groupId # gid \/ x.userId = u} |-> ms[r]]

\* DELETE FROM group_members WHERE group_id = ? AND user_id = ?
DeleteMember(ms, gid, u) ==
  [r \in (DOMAIN ms) \ {MemberRow(gid, u)} |-> ms[r]]

DeleteMembersKept(ms, gid) == ms

\* DELETE FROM group_members WHERE group_id = ?
DeleteMembersOf(ms, gid) ==
  [r \in {x \in DOMAIN ms : x.groupId # gid} |-> ms[r]]

DeleteGroupRowsUpTo(gs, gid) == {g \in gs : g.id > gid}

\* DELETE FROM groups WHERE id = ?
DeleteGroupRow(gs, gid) == {g \in gs : g.id # gid}

GroupDeleteAllowed(ms, gid, fk) == fk => \A r \in DOMAIN ms : r.groupId # gid

\* ORDER BY last_used: the orders in which the database may return result
\* rows, each a group g with the number k of the joined row; rows of equal
\* last_used come in any order
OrderedByLastUsed(rows) ==
  LET n == Cardinality(rows) IN
  {[i \in 1..n |-> s[i].g] :
     s \in {t \in [1..n -> rows] :
              /\ \A i, j \in 1..n : i < j => t[i] # t[j]
              /\ \A i, j \in 1..n : i < j => t[i].g.lastUsed <= t[j].g.lastUsed}}

\* the same query without its WHERE clause
getGroupsAnyGuild(gs, guild) ==
  OrderedByLastUsed({[g |-> g, k |-> 1] : g \in gs})

\* SELECT * FROM groups WHERE guild_id = ? ORDER BY last_used
getGuildGroups(gs, guild) ==
  OrderedByLastUsed({[g |-> g, k |-> 1] : g \in {x \in gs : x.guildId = guild}})

\* SELECT groups.* FROM groups INNER JOIN group_members ON id = group_id
\* WHERE guild_id = ? AND user_id = ? ORDER BY last_used: one result row for
\* every row of group_members that matches
getUserGuildGroups(gs, ms, guild, u) ==
  OrderedByLastUsed(UNION {
    {[g |-> g, k |-> k] :
       k \in 1..(IF MemberRow(g.id, u) \in DOMAIN ms THEN ms[MemberRow(g.id, u)] ELSE 0)} :
    g \in {x \in gs : x.guildId = guild}})

\* SELECT user_id FROM group_members WHERE group_id = ?  (one entry per row)
MemberIds(ms, gid) ==
  LET us == {r.userId : r \in {x \in DOMAIN ms : x.groupId = gid}}
  IN  [u \in us |-> ms[MemberRow(gid, u)]]

\* a check that passes for every user when the group has a member
HasAnyMember(ms, gid, u) == \E x \in DOMAIN ms : x.groupId = gid

HasMember(ms, gid, u) == MemberRow(gid, u) \in DOMAIN ms

\* UPDATE groups SET last_used = ? WHERE id = ?
TouchGroup(gs, gid, t) ==
  {IF g.id = gid THEN [g EXCEPT !.lastUsed = t] ELSE g : g \in gs}

\* ------------------------------------------------------------ timeouts.ts
\* a key made of the user alone
TimeoutKeyOfUser(u, c) == <<u, "create">>

\* `${userId}-${command}`
TimeoutKey(u, c) == <<u, c>>

\* ---- the durations, read from process.env when the module is loaded
\* the characters of a value of an environment variable
DecimalDigits == {"0", "2", "7"}
DigitValue(ch) == CASE ch = "0" -> 0 [] ch = "2" -> 2 [] ch = "7" -> 7

RECURSIVE DecimalValue(_)
DecimalValue(d) ==
  IF d = <<>> THEN 0
  ELSE 10 * DecimalValue(SubSeq(d, 1, Len(d) - 1)) + DigitValue(d[Len(d)])

\* a variable that is not in the environment reads as undefined, which
\* parseInt turns into a string that holds no digit
Unset == <<"undefined">>

\* the numbers parseInt returns
NaN == [isNaN |-> TRUE, value |-> 0]
Number(v) == [isNaN |-> FALSE, value |-> v]

\* parseInt(string): leading white space is skipped, then an optional sign
\* and the longest run of decimal digits are read; NaN when there is no digit
parseInt(s) ==
  LET t == TrimStart(s)
      signed == t # <<>> /\ Head(t) \in {"-", "+"}
      u == IF signed THEN Tail(t) ELSE t
      k == CHOOSE i \in 0..Len(u) :
             /\ \A j \in 1..i : u[j] \in DecimalDigits
             /\ i < Len(u) => u[i + 1] \notin DecimalDigits
      v == DecimalValue(SubSeq(u, 1, k))
  IN  IF k = 0 THEN NaN
      ELSE IF signed /\ Head(t) = "-" THEN Number(-v) ELSE Number(v)

\* n || d: the default replaces NaN and 0
OrDefault(n, d) == IF n.isNaN \/ n.value = 0 THEN d ELSE n.value

\* the environment of a process started without the two variables
NoTimeoutsSet == [CREATE_TIMEOUT |-> Unset, PING_TIMEOUT |-> Unset]

\* const CREATE_TIMEOUT / PING_TIMEOUT, as the module computes them
TimeoutSeconds(c) ==
  IF c = "create" THEN OrDefault(parseInt(env.processEnv.CREATE_TIMEOUT), CREATE_TIMEOUT)
  ELSE OrDefault(parseInt(env.processEnv.PING_TIMEOUT), PING_TIMEOUT)

FloorDiv(x, d) == x \div d

\* Math.ceil(x / d) for d > 0
CeilDiv(x, d) == -((-x) \div d)

\* Math.ceil(timeoutSeconds - (now - lastUsed) / 1000)
RemainingSeconds(lastUsed, t, c) ==
  CeilDiv(TimeoutSeconds(c) * MsPerSecond - (t - lastUsed), MsPerSecond)

\* `!lastUsed`: no entry, or an entry of 0
HasEntry(tm, u, c) ==
  TimeoutKey(u, c) \in DOMAIN tm /\ tm[TimeoutKey(u, c)] # 0

\* isOnTimeout: the result
isOnTimeout(tm, t, u, c) ==
  IF ~HasEntry(tm, u, c) THEN [onTimeout |-> FALSE, remainingSeconds |-> 0]
  ELSE LET r == RemainingSeconds(tm[TimeoutKey(u, c)], t, c)
       IN  IF r <= 0 THEN [onTimeout |-> FALSE, remainingSeconds |-> 0]
           ELSE [onTimeout |-> TRUE, remainingSeconds |-> r]

\* a check that sets the entry at once
TimeoutsArmedAtCheck(tm, t, u, c) ==
  [k \in (DOMAIN tm) \cup {<<u, c>>} |-> IF k = <<u, c>> THEN t ELSE tm[k]]

\* isOnTimeout: the map it leaves (an expired entry is deleted)
TimeoutsAfterCheck(tm, t, u, c) ==
  IF HasEntry(tm, u, c) /\ RemainingSeconds(tm[TimeoutKey(u, c)], t, c) <= 0
  THEN [k \in (DOMAIN tm) \ {TimeoutKey(u, c)} |-> tm[k]]
  ELSE tm

\* every entry of the map set together with the one of the user and command
setTimeoutAll(tm, t, u, c) ==
  [k \in (DOMAIN tm) \cup {<<u, c>>} |-> t]

\* setTimeout
setTimeout(tm, t, u, c) ==
  [k \in (DOMAIN tm) \cup {TimeoutKey(u, c)} |->
     IF k = TimeoutKey(u, c) THEN t ELSE tm[k]]

\* ----------------------------------------------------- handler invocations
Idle ==
  [pc |-> "idle", cmd |-> "none", user |-> 0, guild |-> "none", name |-> <<>>,
   admin |-> FALSE, gid |-> 0, cur |-> EmptyBag, out |-> "none", wait |-> 0]

NewReq(c, u, g, n, a, pc) ==
  [pc |-> pc, cmd |-> c, user |-> u, guild |-> g, name |-> n,
   admin |-> a, gid |-> 0, cur |-> EmptyBag, out |-> "none", wait |-> 0]

\* a handler that lets the failure escape to the router's catch
Throwing(r, out) == [r EXCEPT !.pc = "catch", !.out = out]

\* the handler calls interaction.reply with the message `out`
Replying(r, out) == [r EXCEPT !.pc = "reply", !.out = out]

\* "You must wait ${timeout.remainingSeconds} seconds before ..."
ReplyingWait(r, t) == [r EXCEPT !.pc = "reply", !.out = "cooldown", !.wait = t.remainingSeconds]

At(p, c, pc) == req[p].cmd = c /\ req[p].pc = pc

\* the outcomes of one awaited storage statement: it succeeds, or it throws
Outcomes == IF faultsLeft > 0 THEN BOOLEAN ELSE {TRUE}

Spend(ok) == faultsLeft' = IF ok THEN faultsLeft ELSE faultsLeft - 1

InFlight == {q \in Procs : req[q].pc # "idle"}

\* a new invocation takes the first free slot
CanStart(p) ==
  /\ requestsLeft > 0
  /\ Cardinality(InFlight) < env.inFlight
  /\ req[p].pc = "idle"
  /\ \A q \in Procs : q < p => req[q].pc # "idle"

\* ------------------------------------------------------------ handleCreate
\* isOnTimeout(user, 'create'), then the call of getGroupByName
CreateStart(p) ==
  /\ CanStart(p)
  /\ \E u \in env.users, g \in env.guilds, n \in env.names :
       LET t == isOnTimeout(userTimeouts, now, u, "create") IN
       /\ userTimeouts' = TimeoutsAfterCheck(userTimeouts, now, u, "create")
       /\ req' = [req EXCEPT ![p] =
            IF t.onTimeout
            THEN ReplyingWait(NewReq("create", u, g, n, FALSE, "reply"), t)
            ELSE NewReq("create", u, g, n, FALSE, "lookup")]
  /\ requestsLeft' = requestsLeft - 1
  /\ UNCHANGED <<groups, members, now, faultsLeft, ticksLeft, fkOn, env>>

\* getGroupByName returns; createGroup trims and validates the name
CreateLookup(p) ==
  /\ At(p, "create", "lookup")
  /\ \E ok \in Outcomes :
       /\ Spend(ok)
       /\ LET found == ok /\ RowsByName(groups, req[p].name, req[p].guild) # {} IN
          req' = [req EXCEPT ![p] =
            IF found THEN Replying(@, "exists")
            ELSE IF ~validateGroupName(Trim(req[p].name)) THEN Replying(@, "failed")
            ELSE [@ EXCEPT !.pc = "insgroup"]]
  /\ UNCHANGED <<groups, members, userTimeouts, now, requestsLeft, ticksLeft, fkOn, env>>

\* createGroup: the insert into groups
CreateInsertGroup(p) ==
  /\ At(p, "create", "insgroup")
  /\ \E ok \in Outcomes :
       /\ Spend(ok)
       /\ IF ok
          THEN /\ groups' = InsertGroup(groups, Trim(req[p].name), req[p].guild,
                                        req[p].user, now)
               /\ req' = [req EXCEPT ![p] =
                    [@ EXCEPT !.pc = "insmember", !.gid = NextId(groups)]]
          ELSE /\ groups' = groups
               /\ req' = [req EXCEPT ![p] = Replying(@, "failed")]
  /\ UNCHANGED <<members, userTimeouts, now, requestsLeft, ticksLeft, fkOn, env>>

\* createGroup: the insert of the creator into group_members; on success
\* handleCreate sets the timeout
CreateInsertMember(p) ==
  /\ At(p, "create", "insmember")
  /\ \E ok \in Outcomes :
       /\ Spend(ok)
       /\ IF ok /\ MemberInsertAllowed(groups, req[p].gid, fkOn)
          THEN /\ members' = InsertMember(members, req[p].gid, req[p].user)
               /\ userTimeouts' = setTimeout(userTimeouts, now, req[p].user, "create")
               /\ req' = [req EXCEPT ![p] = Replying(@, "created")]
          ELSE /\ members' = members
               /\ userTimeouts' = userTimeouts
               /\ req' = [req EXCEPT ![p] = Replying(@, "failed")]
  /\ UNCHANGED <<groups, now, requestsLeft, ticksLeft, fkOn, env>>

\* -------------------------------------------------------------- handleJoin
JoinStart(p) ==
  /\ CanStart(p)
  /\ \E u \in env.users, g \in env.guilds, n \in env.names :
       req' = [req EXCEPT ![p] = NewReq("join", u, g, n, FALSE, "lookup")]
  /\ requestsLeft' = requestsLeft - 1
  /\ UNCHANGED <<groups, members, userTimeouts, now, faultsLeft, ticksLeft, fkOn, env>>

\* getGroupByName returns: findFirst takes any one of the matching rows
Lookup(p, c, next) ==
  /\ At(p, c, "lookup")
  /\ \E ok \in Outcomes :
       /\ Spend(ok)
       /\ LET rows == IF ok THEN RowsByName(groups, req[p].name, req[p].guild) ELSE {} IN
          IF rows = {}
          THEN req' = [req EXCEPT ![p] = Replying(@, "nogroup")]
          ELSE \E g \in rows :
                 req' = [req EXCEPT ![p] = [@ EXCEPT !.pc = next, !.gid = g.id]]
  /\ UNCHANGED <<groups, members, userTimeouts, now, requestsLeft, ticksLeft, fkOn, env>>

JoinLookup(p) == Lookup(p, "join", "ismember")

\* isMemberInGroup returns
JoinIsMember(p) ==
  /\ At(p, "join", "ismember")
  /\ \E ok \in Outcomes :
       /\ Spend(ok)
       /\ req' = [req EXCEPT ![p] =
            IF ok /\ HasMember(members, req[p].gid, req[p].user)
            THEN Replying(@, "already")
            ELSE [@ EXCEPT !.pc = "insert"]]
  /\ UNCHANGED <<groups, members, userTimeouts, now, requestsLeft, ticksLeft, fkOn, env>>

\* addMemberToGroup returns
JoinInsert(p) ==
  /\ At(p, "join", "insert")
  /\ \E ok \in Outcomes :
       /\ Spend(ok)
       /\ IF ok /\ MemberInsertAllowed(groups, req[p].gid, fkOn)
          THEN /\ members' = InsertMember(members, req[p].gid, req[p].user)
               /\ req' = [req EXCEPT ![p] = Replying(@, "joined")]
          ELSE /\ members' = members
               /\ req' = [req EXCEPT ![p] = Replying(@, "failed")]
  /\ UNCHANGED <<groups, userTimeouts, now, requestsLeft, ticksLeft, fkOn, env>>

\* ------------------------------------------------------------- deleteGroup
\* the delete of the group's rows of group_members; `failed` is the reply of
\* the calling handler when deleteGroup returns false
DeleteGroupMembers(p, c, failed) ==
  /\ At(p, c, "delmembers")
  /\ \E ok \in Outcomes :
       /\ Spend(ok)
       /\ IF ok
          THEN /\ members' = DeleteMembersOf(members, req[p].gid)
               /\ req' = [req EXCEPT ![p] = [@ EXCEPT !.pc = "delgroup"]]
          ELSE /\ members' = members
               /\ req' = [req EXCEPT ![p] = Replying(@, failed)]
  /\ UNCHANGED <<groups, userTimeouts, now, requestsLeft, ticksLeft, fkOn, env>>

\* the delete of the row of groups
DeleteGroupGroup(p, c, done, failed) ==
  /\ At(p, c, "delgroup")
  /\ \E ok \in Outcomes :
       /\ Spend(ok)
       /\ IF ok /\ GroupDeleteAllowed(members, req[p].gid, fkOn)
          THEN /\ groups' = DeleteGroupRow(groups, req[p].gid)
               /\ req' = [req EXCEPT ![p] = Replying(@, done)]
          ELSE /\ groups' = groups
               /\ req' = [req EXCEPT ![p] = Replying(@, failed)]
  /\ UNCHANGED <<members, userTimeouts, now, requestsLeft, ticksLeft, fkOn, env>>

\* ------------------------------------------------------------- handleLeave
LeaveStart(p) ==
  /\ CanStart(p)
  /\ \E u \in env.users, g \in env.guilds, n \in env.names :
       req' = [req EXCEPT ![p] = NewReq("leave", u, g, n, FALSE, "lookup")]
  /\ requestsLeft' = requestsLeft - 1
  /\ UNCHANGED <<groups, members, userTimeouts, now, faultsLeft, ticksLeft, fkOn, env>>

LeaveLookup(p) == Lookup(p, "leave", "ismember")

LeaveIsMember(p) ==
  /\ At(p, "leave", "ismember")
  /\ \E ok \in Outcomes :
       /\ Spend(ok)
       /\ req' = [req EXCEPT ![p] =
            IF ok /\ HasMember(members, req[p].gid, req[p].user)
            THEN [@ EXCEPT !.pc = "members"]
            ELSE Replying(@, "notmember")]
  /\ UNCHANGED <<groups, members, userTimeouts, now, requestsLeft, ticksLeft, fkOn, env>>

\* getGroupMembers returns currentMembers ([] when the query throws)
LeaveMembers(p) ==
  /\ At(p, "leave", "members")
  /\ \E ok \in Outcomes :
       /\ Spend(ok)
       /\ req' = [req EXCEPT ![p] =
            [@ EXCEPT !.pc = "remove",
                      !.cur = IF ok THEN MemberIds(members, req[p].gid) ELSE EmptyBag]]
  /\ UNCHANGED <<groups, members, userTimeouts, now, requestsLeft, ticksLeft, fkOn, env>>

\* removeMemberFromGroup returns; deleteGroup is called when
\* currentMembers.length === 1
LeaveRemove(p) ==
  /\ At(p, "leave", "remove")
  /\ \E ok \in Outcomes :
       /\ Spend(ok)
       /\ IF ok
          THEN /\ members' = DeleteMember(members, req[p].gid, req[p].user)
               /\ req' = [req EXCEPT ![p] =
                    IF BagCardinality(req[p].cur) = 1
                    THEN [@ EXCEPT !.pc = "delmembers"]
                    ELSE Replying(@, "left")]
          ELSE /\ members' = members
               /\ req' = [req EXCEPT ![p] = Replying(@, "leavefailed")]
  /\ UNCHANGED <<groups, userTimeouts, now, requestsLeft, ticksLeft, fkOn, env>>

\* the result of deleteGroup is not looked at
LeaveDeleteMembers(p) == DeleteGroupMembers(p, "leave", "leftdeleted")

LeaveDeleteGroup(p) == DeleteGroupGroup(p, "leave", "leftdeleted", "leftdeleted")

\* ------------------------------------------------------------ handleDelete
DeleteDeniedNever(a) == FALSE

\* !interaction.memberPermissions?.has(PermissionFlagsBits.Administrator)
DeleteDenied(a) == ~a

DeleteStart(p) ==
  /\ CanStart(p)
  /\ \E u \in env.users, g \in env.guilds, n \in env.names, a \in BOOLEAN :
       req' = [req EXCEPT ![p] =
         IF DeleteDenied(a)
         THEN Replying(NewReq("delete", u, g, n, a, "reply"), "denied")
         ELSE NewReq("delete", u, g, n, a, "lookup")]
  /\ requestsLeft' = requestsLeft - 1
  /\ UNCHANGED <<groups, members, userTimeouts, now, faultsLeft, ticksLeft, fkOn, env>>

DeleteLookup(p) == Lookup(p, "delete", "delmembers")

DeleteDeleteMembers(p) == DeleteGroupMembers(p, "delete", "deletefailed")

DeleteDeleteGroup(p) == DeleteGroupGroup(p, "delete", "deleted", "deletefailed")

\* -------------------------------------------------------------- handlePing
PingStart(p) ==
  /\ CanStart(p)
  /\ \E u \in env.users, g \in env.guilds, n \in env.names :
       LET t == isOnTimeout(userTimeouts, now, u, "ping") IN
       /\ userTimeouts' = TimeoutsAfterCheck(userTimeouts, now, u, "ping")
       /\ req' = [req EXCEPT ![p] =
            IF t.onTimeout
            THEN ReplyingWait(NewReq("ping", u, g, n, FALSE, "reply"), t)
            ELSE NewReq("ping", u, g, n, FALSE, "lookup")]
  /\ requestsLeft' = requestsLeft - 1
  /\ UNCHANGED <<groups, members, now, faultsLeft, ticksLeft, fkOn, env>>

PingLookup(p) == Lookup(p, "ping", "ismember")

PingIsMember(p) ==
  /\ At(p, "ping", "ismember")
  /\ \E ok \in Outcomes :
       /\ Spend(ok)
       /\ req' = [req EXCEPT ![p] =
            IF ok /\ HasMember(members, req[p].gid, req[p].user)
            THEN [@ EXCEPT !.pc = "touch"]
            ELSE Replying(@, "notmember")]
  /\ UNCHANGED <<groups, members, userTimeouts, now, requestsLeft, ticksLeft, fkOn, env>>

\* updateGroupLastUsed returns; its result is not looked at
PingTouch(p) ==
  /\ At(p, "ping", "touch")
  /\ \E ok \in Outcomes :
       /\ Spend(ok)
       /\ groups' = IF ok THEN TouchGroup(groups, req[p].gid, now) ELSE groups
       /\ req' = [req EXCEPT ![p] = [@ EXCEPT !.pc = "members"]]
  /\ UNCHANGED <<members, userTimeouts, now, requestsLeft, ticksLeft, fkOn, env>>

\* getGroupMembers returns the ids to mention; the timeout is set and the
\* notification is handed to interaction.reply
PingMembers(p) ==
  /\ At(p, "ping", "members")
  /\ \E ok \in Outcomes :
       /\ Spend(ok)
       /\ req' = [req EXCEPT ![p] =
            Replying([@ EXCEPT !.cur = IF ok THEN MemberIds(members, req[p].gid)
                                       ELSE EmptyBag], "pinged")]
  /\ userTimeouts' = setTimeout(userTimeouts, now, req[p].user, "ping")
  /\ UNCHANGED <<groups, members, now, requestsLeft, ticksLeft, fkOn, env>>

\* -------------------------------------------------------------- handleList
ListStart(p) ==
  /\ CanStart(p)
  /\ \E u \in env.users, g \in env.guilds :
       req' = [req EXCEPT ![p] = NewReq("list", u, g, <<>>, FALSE, "guildgroups")]
  /\ requestsLeft' = requestsLeft - 1
  /\ UNCHANGED <<groups, members, userTimeouts, now, faultsLeft, ticksLeft, fkOn, env>>

\* getGuildGroups returns ([] when the query throws); `cur` keeps the list
ListGroups(p) ==
  /\ At(p, "list", "guildgroups")
  /\ \E ok \in Outcomes :
       /\ Spend(ok)
       /\ \E s \in (IF ok THEN getGuildGroups(groups, req[p].guild) ELSE {<<>>}) :
            req' = [req EXCEPT ![p] =
              IF s = <<>> THEN Replying(@, "nogroups")
              ELSE [@ EXCEPT !.pc = "counts", !.cur = s]]
  /\ UNCHANGED <<groups, members, userTimeouts, now, requestsLeft, ticksLeft, fkOn, env>>

\* Promise.all of one getGroupMembers for every listed group settles; the
\* counts go into the reply
ListCounts(p) ==
  /\ At(p, "list", "counts")
  /\ \E ok \in Outcomes :
       /\ Spend(ok)
       /\ req' = [req EXCEPT ![p] = Replying(@, "listed")]
  /\ UNCHANGED <<groups, members, userTimeouts, now, requestsLeft, ticksLeft, fkOn, env>>

\* ----------------------------------------------------------- handleMembers
MembersStart(p) ==
  /\ CanStart(p)
  /\ \E u \in env.users, g \in env.guilds, n \in env.names :
       req' = [req EXCEPT ![p] = NewReq("members", u, g, n, FALSE, "lookup")]
  /\ requestsLeft' = requestsLeft - 1
  /\ UNCHANGED <<groups, members, userTimeouts, now, faultsLeft, ticksLeft, fkOn, env>>

MembersLookup(p) == Lookup(p, "members", "members")

\* getGroupMembers returns the ids, whose users are then fetched and listed
MembersRead(p) ==
  /\ At(p, "members", "members")
  /\ \E ok \in Outcomes :
       /\ Spend(ok)
       /\ LET ids == IF ok THEN MemberIds(members, req[p].gid) ELSE EmptyBag IN
          req' = [req EXCEPT ![p] =
            Replying([@ EXCEPT !.cur = ids],
                     IF ids = EmptyBag THEN "nomembers" ELSE "memberlist")]
  /\ UNCHANGED <<groups, members, userTimeouts, now, requestsLeft, ticksLeft, fkOn, env>>

\* ------------------------------------------------------------ autocomplete
\* the commands whose name option has autocomplete
AutocompleteCommands == {"join", "leave", "members", "ping", "delete"}

\* String.prototype.toLowerCase, on the characters of the model
ToLowerCase(s) == [i \in 1..Len(s) |-> IF s[i] = "Z" THEN "z" ELSE s[i]]

\* String.prototype.startsWith
StartsWith(s, prefix) ==
  Len(prefix) <= Len(s) /\ SubSeq(s, 1, Len(prefix)) = prefix

\* what the user has typed so far
FocusedValues == {<<>>, <<"a">>, <<"z">>}

\* groups.filter(startsWith).map(name)
Filtered(s, focused) ==
  LET keep == SelectSeq(s, LAMBDA g : StartsWith(ToLowerCase(g.name), ToLowerCase(focused)))
  IN  [i \in 1..Len(keep) |-> keep[i].name]

\* the first query of the autocomplete of a command; `out` keeps the command
AutocompleteStart(p) ==
  /\ CanStart(p)
  /\ \E u \in env.users, g \in env.guilds, f \in FocusedValues,
        c \in AutocompleteCommands, a \in BOOLEAN :
       req' = [req EXCEPT ![p] =
         [NewReq("autocomplete", u, g, f, a,
                 IF c = "delete" /\ DeleteDenied(a) THEN "respond"
                 ELSE IF c \in {"ping", "leave"} THEN "usergroups"
                 ELSE "guildgroups") EXCEPT !.out = c]]
  /\ requestsLeft' = requestsLeft - 1
  /\ UNCHANGED <<groups, members, userTimeouts, now, faultsLeft, ticksLeft, fkOn, env>>

\* getGuildGroups returns; for join a non-empty list is then filtered by the
\* user's own groups
AutocompleteGroups(p) ==
  /\ At(p, "autocomplete", "guildgroups")
  /\ \E ok \in Outcomes :
       /\ Spend(ok)
       /\ \E s \in (IF ok THEN getGuildGroups(groups, req[p].guild) ELSE {<<>>}) :
            req' = [req EXCEPT ![p] =
              [@ EXCEPT !.cur = s,
                        !.pc = IF req[p].out = "join" /\ s # <<>>
                               THEN "usergroups" ELSE "respond"]]
  /\ UNCHANGED <<groups, members, userTimeouts, now, requestsLeft, ticksLeft, fkOn, env>>

\* getUserGuildGroups returns: the list itself for ping and leave, the groups
\* to leave out for join
AutocompleteUserGroups(p) ==
  /\ At(p, "autocomplete", "usergroups")
  /\ \E ok \in Outcomes :
       /\ Spend(ok)
       /\ \E s \in (IF ok THEN getUserGuildGroups(groups, members, req[p].guild, req[p].user)
                    ELSE {<<>>}) :
            req' = [req EXCEPT ![p] =
              [@ EXCEPT !.pc = "respond",
                        !.cur = IF req[p].out = "join"
                                THEN SelectSeq(req[p].cur,
                                       LAMBDA g : \A i \in 1..Len(s) : s[i].id # g.id)
                                ELSE s]]
  /\ UNCHANGED <<groups, members, userTimeouts, now, requestsLeft, ticksLeft, fkOn, env>>

\* interaction.respond(filtered) returns or throws; the branch is outside the
\* router's try, so a throw rejects the listener's promise (`cur` then keeps
\* the options that were handed to respond)
AutocompleteRespond(p) ==
  /\ At(p, "autocomplete", "respond")
  /\ \E ok \in BOOLEAN :
       req' = [req EXCEPT ![p] =
         IF ok THEN Idle
         ELSE [@ EXCEPT !.pc = "rejected", !.cur = Filtered(req[p].cur, req[p].name)]]
  /\ UNCHANGED <<groups, members, userTimeouts, now, requestsLeft, faultsLeft, ticksLeft, fkOn, env>>

\* the rejection is reported and the listener is done
AutocompleteRejected(p) ==
  /\ At(p, "autocomplete", "rejected")
  /\ req' = [req EXCEPT ![p] = Idle]
  /\ UNCHANGED <<groups, members, userTimeouts, now, requestsLeft, faultsLeft, ticksLeft, fkOn, env>>

\* ------------------------------------------------------- replies and clock
\* interaction.reply returns or throws; a throw reaches the router's catch
Reply(p) ==
  /\ req[p].pc = "reply"
  /\ \E ok \in BOOLEAN :
       req' = [req EXCEPT ![p] = IF ok THEN Idle ELSE [@ EXCEPT !.pc = "catch"]]
  /\ UNCHANGED <<groups, members, userTimeouts, now, requestsLeft, faultsLeft, ticksLeft, fkOn, env>>

\* a catch that hands the request back to the reply it came from
RouterRetry(p) ==
  /\ req[p].pc = "catch"
  /\ req' = [req EXCEPT ![p] = [@ EXCEPT !.pc = "reply"]]
  /\ UNCHANGED <<groups, members, userTimeouts, now, requestsLeft, faultsLeft, ticksLeft, fkOn, env>>

\* the router's catch replies with the generic error; when that reply throws
\* too, the empty callback of .catch(() => {}) swallows the failure
RouterCatch(p) ==
  /\ \/ /\ req[p].pc = "catch"
        /\ \E ok \in BOOLEAN :
             req' = [req EXCEPT ![p] = IF ok THEN Idle ELSE [@ EXCEPT !.pc = "swallowed"]]
     \/ /\ req[p].pc = "swallowed"
        /\ req' = [req EXCEPT ![p] = Idle]
  /\ UNCHANGED <<groups, members, userTimeouts, now, requestsLeft, faultsLeft, ticksLeft, fkOn, env>>

StartTime == 1

\* The clock advances to a later one of these instants: a millisecond and a
\* second after the start, and just before, at and after the end of each of
\* the two timeouts counted from the start.
Offsets ==
  {1, MsPerSecond} \cup
  UNION {{d * MsPerSecond - 1, d * MsPerSecond, (d + 1) * MsPerSecond} :
         d \in {PING_TIMEOUT, CREATE_TIMEOUT}}

Instants == {StartTime + d : d \in Offsets}

Tick ==
  /\ ticksLeft > 0
  /\ \E t \in Instants : t > now /\ now' = t
  /\ ticksLeft' = ticksLeft - 1
  /\ UNCHANGED <<groups, members, userTimeouts, req, requestsLeft, faultsLeft, fkOn, env>>

\* ------------------------------------------------------------ specification
\* The tables outlive the process: it starts on an empty database or on what
\* an earlier run left, here a group of one member or of two.
SeedGroups == InsertGroup({}, NameAB, "S1", 1, StartTime)
SeedStores ==
  { [groups |-> {}, members |-> EmptyBag],
    [groups |-> SeedGroups, members |-> InsertMember(EmptyBag, 1, 1)],
    [groups |-> SeedGroups,
     members |-> InsertMember(InsertMember(EmptyBag, 1, 1), 1, 2)] }

InitProcess ==
  /\ userTimeouts = <<>>
  /\ now = StartTime
  /\ req = [p \in Procs |-> Idle]
  /\ fkOn \in BOOLEAN

Step(p) ==
  \/ CreateStart(p) \/ CreateLookup(p) \/ CreateInsertGroup(p) \/ CreateInsertMember(p)
  \/ JoinStart(p) \/ JoinLookup(p) \/ JoinIsMember(p) \/ JoinInsert(p)
  \/ LeaveStart(p) \/ LeaveLookup(p) \/ LeaveIsMember(p) \/ LeaveMembers(p)
  \/ LeaveRemove(p) \/ LeaveDeleteMembers(p) \/ LeaveDeleteGroup(p)
  \/ DeleteStart(p) \/ DeleteLookup(p) \/ DeleteDeleteMembers(p) \/ DeleteDeleteGroup(p)
  \/ PingStart(p) \/ PingLookup(p) \/ PingIsMember(p) \/ PingTouch(p) \/ PingMembers(p)
  \/ Reply(p) \/ RouterCatch(p)

\* Overlapping invocations, storage statements that may fail.
Init ==
  /\ InitProcess
  /\ \E s \in SeedStores : groups = s.groups /\ members = s.members
  /\ requestsLeft = MaxRequests
  /\ faultsLeft = MaxFaults
  /\ ticksLeft = 0
  /\ env = [users |-> Users, guilds |-> Guilds, names |-> {NameAB, NameABsp, NameA},
            inFlight |-> NumProcs,
            processEnv |-> NoTimeoutsSet]

Next == \E p \in Procs : Step(p)

Spec == Init /\ [][Next]_vars

\* One invocation at a time on an empty database, no storage failure.
InitSeq ==
  /\ InitProcess
  /\ groups = {} /\ members = EmptyBag
  /\ requestsLeft = SeqRequests
  /\ faultsLeft = 0
  /\ ticksLeft = 0
  /\ env = [users |-> Users, guilds |-> Guilds, names |-> {NameAB, NameABsp},
            inFlight |-> 1,
            processEnv |-> NoTimeoutsSet]

SpecSeq == InitSeq /\ [][Next]_vars

\* Overlapping invocations of well-formed names, no storage failure.
InitRace ==
  /\ InitProcess
  /\ \E s \in SeedStores : groups = s.groups /\ members = s.members
  /\ requestsLeft = MaxRequests
  /\ faultsLeft = 0
  /\ ticksLeft = 0
  /\ env = [users |-> Users, guilds |-> Guilds, names |-> {NameAB, NameZ7},
            inFlight |-> NumProcs,
            processEnv |-> NoTimeoutsSet]

SpecRace == InitRace /\ [][Next]_vars

\* The two commands with a timeout, create and ping, one invocation at a time
\* in one guild while the clock advances.
InitTime ==
  /\ InitProcess
  /\ \E s \in SeedStores : groups = s.groups /\ members = s.members
  /\ requestsLeft = TimeRequests
  /\ faultsLeft = 0
  /\ ticksLeft = MaxTicks
  /\ env = [users |-> Users, guilds |-> {"S1"}, names |-> {NameAB},
            inFlight |-> 1,
            processEnv |-> NoTimeoutsSet]

StepTimed(p) ==
  \/ CreateStart(p) \/ CreateLookup(p) \/ CreateInsertGroup(p) \/ CreateInsertMember(p)
  \/ PingStart(p) \/ PingLookup(p) \/ PingIsMember(p) \/ PingTouch(p) \/ PingMembers(p)
  \/ Reply(p) \/ RouterCatch(p)

NextTime == (\E p \in Procs : StepTimed(p)) \/ Tick

SpecTime == InitTime /\ [][NextTime]_vars

\* Create and ping of one user, one invocation at a time in one guild, a name
\* that is too short among the names, storage statements that may fail and
\* the clock advancing.
InitArm ==
  /\ InitProcess
  /\ \E s \in SeedStores : groups = s.groups /\ members = s.members
  /\ requestsLeft = TimeRequests
  /\ faultsLeft = MaxFaults
  /\ ticksLeft = MaxTicks
  /\ env = [users |-> {1}, guilds |-> {"S1"}, names |-> {NameAB, NameA},
            inFlight |-> 1,
            processEnv |-> NoTimeoutsSet]

SpecArm == InitArm /\ [][NextTime]_vars

\* Join and leave in one guild on a stored group, overlapping invocations, no
\* storage failure.
InitMembership ==
  /\ InitProcess
  /\ \E s \in SeedStores : groups = s.groups /\ members = s.members
  /\ requestsLeft = MaxRequests
  /\ faultsLeft = 0
  /\ ticksLeft = 0
  /\ env = [users |-> Users, guilds |-> {"S1"}, names |-> {NameAB},
            inFlight |-> NumProcs,
            processEnv |-> NoTimeoutsSet]

StepMembership(p) ==
  \/ JoinStart(p) \/ JoinLookup(p) \/ JoinIsMember(p) \/ JoinInsert(p)
  \/ LeaveStart(p) \/ LeaveLookup(p) \/ LeaveIsMember(p) \/ LeaveMembers(p)
  \/ LeaveRemove(p) \/ LeaveDeleteMembers(p) \/ LeaveDeleteGroup(p)
  \/ Reply(p) \/ RouterCatch(p)

NextMembership == \E p \in Procs : StepMembership(p)

SpecMembership == InitMembership /\ [][NextMembership]_vars

\* One invocation at a time in one guild, with names of every kind that
\* validateGroupName tells apart; no storage failure.
InitNames ==
  /\ InitProcess
  /\ \E s \in SeedStores : groups = s.groups /\ members = s.members
  /\ requestsLeft = MaxRequests
  /\ faultsLeft = 0
  /\ ticksLeft = 0
  /\ env = [users |-> Users, guilds |-> {"S1"}, names |-> Names, inFlight |-> 1,
            processEnv |-> NoTimeoutsSet]

SpecNames == InitNames /\ [][Next]_vars

\* Every command, one invocation at a time in one guild on one name, while
\* the clock advances; no storage failure.
InitFrame ==
  /\ InitProcess
  /\ \E s \in SeedStores : groups = s.groups /\ members = s.members
  /\ requestsLeft = TimeRequests
  /\ faultsLeft = 0
  /\ ticksLeft = MaxTicks
  /\ env = [users |-> Users, guilds |-> {"S1"}, names |-> {NameAB},
            inFlight |-> 1,
            processEnv |-> NoTimeoutsSet]

NextFrame == (\E p \in Procs : Step(p)) \/ Tick

SpecFrame == InitFrame /\ [][NextFrame]_vars

StepList(p) == ListStart(p) \/ ListGroups(p) \/ ListCounts(p)

\* Create, ping and list of one user, one invocation at a time in two guilds
\* while the clock advances; no storage failure.
InitList ==
  /\ InitProcess
  /\ \E s \in SeedStores : groups = s.groups /\ members = s.members
  /\ requestsLeft = ListRequests
  /\ faultsLeft = 0
  /\ ticksLeft = ListTicks
  /\ env = [users |-> {1}, guilds |-> Guilds, names |-> {NameAB, NameZ7},
            inFlight |-> 1,
            processEnv |-> NoTimeoutsSet]

NextList == (\E p \in Procs : StepTimed(p) \/ StepList(p)) \/ Tick

SpecList == InitList /\ [][NextList]_vars

\* The values the two variables are given in the model: unset, empty, zero,
\* numbers, a number followed by a letter, and a word.
ConfigValues ==
  {Unset, <<>>, <<"0">>, <<"2">>, <<"2", "0">>, <<"2", "a">>, <<"a">>}

\* Create and ping of one user on one name while the clock advances, in a
\* process started with any of the values for its two durations.
InitConfig ==
  /\ InitProcess
  /\ \E s \in SeedStores : groups = s.groups /\ members = s.members
  /\ requestsLeft = TimeRequests
  /\ faultsLeft = 0
  /\ ticksLeft = MaxTicks
  /\ \E ct \in ConfigValues, pt \in ConfigValues :
       env = [users |-> {1}, guilds |-> {"S1"}, names |-> {NameAB},
              inFlight |-> 1,
              processEnv |-> [CREATE_TIMEOUT |-> ct, PING_TIMEOUT |-> pt]]

SpecConfig == InitConfig /\ [][NextTime]_vars

\* Ping and leave in one guild on a stored group, overlapping invocations, no
\* storage failure.
StepPing(p) ==
  \/ PingStart(p) \/ PingLookup(p) \/ PingIsMember(p) \/ PingTouch(p) \/ PingMembers(p)
  \/ LeaveStart(p) \/ LeaveLookup(p) \/ LeaveIsMember(p) \/ LeaveMembers(p)
  \/ LeaveRemove(p) \/ LeaveDeleteMembers(p) \/ LeaveDeleteGroup(p)
  \/ Reply(p) \/ RouterCatch(p)

NextPing == \E p \in Procs : StepPing(p)

SpecPing == InitMembership /\ [][NextPing]_vars

\* Joins of one user, member listings and autocomplete requests in one guild
\* on a stored group, overlapping invocations, no storage failure.
StepComplete(p) ==
  \/ JoinStart(p) \/ JoinLookup(p) \/ JoinIsMember(p) \/ JoinInsert(p)
  \/ MembersStart(p) \/ MembersLookup(p) \/ MembersRead(p)
  \/ AutocompleteStart(p) \/ AutocompleteGroups(p) \/ AutocompleteUserGroups(p)
  \/ AutocompleteRespond(p) \/ AutocompleteRejected(p)
  \/ Reply(p) \/ RouterCatch(p)

InitComplete ==
  /\ InitProcess
  /\ \E s \in SeedStores : groups = s.groups /\ members = s.members
  /\ requestsLeft = CompleteRequests
  /\ faultsLeft = 0
  /\ ticksLeft = 0
  /\ env = [users |-> {2}, guilds |-> {"S1"}, names |-> {NameAB},
            inFlight |-> NumProcs,
            processEnv |-> NoTimeoutsSet]

NextComplete == \E p \in Procs : StepComplete(p)

SpecComplete == InitComplete /\ [][NextComplete]_vars

\* Every command and the autocomplete, one invocation at a time in one guild
\* on one name, storage statements that may fail.
StepAll(p) ==
  \/ Step(p) \/ StepList(p)
  \/ MembersStart(p) \/ MembersLookup(p) \/ MembersRead(p)
  \/ AutocompleteStart(p) \/ AutocompleteGroups(p) \/ AutocompleteUserGroups(p)
  \/ AutocompleteRespond(p) \/ AutocompleteRejected(p)

InitFault ==
  /\ InitProcess
  /\ \E s \in SeedStores : groups = s.groups /\ members = s.members
  /\ requestsLeft = TimeRequests
  /\ faultsLeft = MaxFaults
  /\ ticksLeft = 0
  /\ env = [users |-> Users, guilds |-> {"S1"}, names |-> {NameAB},
            inFlight |-> 1,
            processEnv |-> NoTimeoutsSet]

NextFault == \E p \in Procs : StepAll(p)

SpecFault == InitFault /\ [][NextFault]_vars

\* the continuation of the invocation in slot p runs once the promise it
\* awaits has settled
Proceed(p) == req[p].pc # "idle" /\ StepAll(p)

\* Every command and the autocomplete as in SpecFault, where every storage
\* call and every call of reply returns or throws, so that no invocation
\* waits for ever
InitLive ==
  /\ InitProcess
  /\ \E s \in SeedStores : groups = s.groups /\ members = s.members
  /\ requestsLeft = LiveRequests
  /\ faultsLeft = MaxFaults
  /\ ticksLeft = 0
  /\ env = [users |-> Users, guilds |-> {"S1"}, names |-> {NameAB},
            inFlight |-> 1,
            processEnv |-> NoTimeoutsSet]

SpecLive == InitLive /\ [][NextFault]_vars /\ \A p \in Procs : WF_vars(Proceed(p))

\* Joins, deletes and creates in one guild, overlapping invocations, no
\* storage failure.
StepReuse(p) ==
  \/ CreateStart(p) \/ CreateLookup(p) \/ CreateInsertGroup(p) \/ CreateInsertMember(p)
  \/ JoinStart(p) \/ JoinLookup(p) \/ JoinIsMember(p) \/ JoinInsert(p)
  \/ DeleteStart(p) \/ DeleteLookup(p) \/ DeleteDeleteMembers(p) \/ DeleteDeleteGroup(p)
  \/ Reply(p) \/ RouterCatch(p)

InitReuse ==
  /\ InitProcess
  /\ \E s \in SeedStores : groups = s.groups /\ members = s.members
  /\ requestsLeft = CompleteRequests
  /\ faultsLeft = 0
  /\ ticksLeft = 0
  /\ env = [users |-> Users, guilds |-> {"S1"}, names |-> {NameAB, NameZ7},
            inFlight |-> NumProcs,
            processEnv |-> NoTimeoutsSet]

NextReuse == \E p \in Procs : StepReuse(p)

SpecReuse == InitReuse /\ [][NextReuse]_vars

\* ------------------------------------------------------------------ claims
\* what the claims read off the two tables
NameTaken(gs, n, gd) == \E g \in gs : g.name = n /\ g.guildId = gd

RowsOf(ms, gid) == {x \in DOMAIN ms : x.groupId = gid}

UsersOf(ms, gid) == {x.userId : x \in RowsOf(ms, gid)}

Copies(ms, gid, u) ==
  IF [groupId |-> gid, userId |-> u] \in DOMAIN ms
  THEN ms[[groupId |-> gid, userId |-> u]] ELSE 0

\* C1: no two groups of one server have the same stored name, in every
\* reachable state.
C1_UniqueNames ==
  \A g1, g2 \in groups :
    (g1.name = g2.name /\ g1.guildId = g2.guildId) => g1.id = g2.id

\* the user's create timeout has been set and has not run out
OnCreateCooldown(u) ==
  /\ <<u, "create">> \in DOMAIN userTimeouts
  /\ now - userTimeouts[<<u, "create">>] < CREATE_TIMEOUT * MsPerSecond

\* A step of a create request for a stored name N: when N is taken in the
\* request's server the request goes on to reply that the group exists and
\* no row is added; when N is taken only in another server every step takes
\* the request on to the reply that the group was created.
C2_Step(p, exempt) ==
  LET r == req[p]
      n == req'[p]
      here == NameTaken(groups, n.name, n.guild)
      elsewhere == \E g \in groups : g.name = n.name /\ g.guildId # n.guild
  IN  (n.cmd = "create" /\ r # n /\ ~exempt) =>
        /\ (here /\ r.pc = "idle") =>
             n.pc = "lookup" /\ groups' = groups /\ members' = members
        /\ (here /\ r.pc = "lookup") =>
             /\ n.pc = "reply" /\ n.out = "exists"
             /\ groups' = groups /\ members' = members
        /\ (~here /\ elsewhere /\ r.pc = "idle") => n.pc = "lookup"
        /\ (~here /\ elsewhere /\ r.pc = "lookup") => n.pc = "insgroup"
        /\ (elsewhere /\ r.pc = "insgroup") =>
             /\ n.pc = "insmember"
             /\ \E g \in groups' \ groups :
                  g.id = n.gid /\ g.name = n.name /\ g.guildId = n.guild
        /\ (elsewhere /\ r.pc = "insmember") =>
             /\ n.pc = "reply" /\ n.out = "created"
             /\ Copies(members', n.gid, n.user) = 1

C3_RoundTrip ==
  [][\A p \in Procs :
       (req[p].pc = "insmember" /\ req'[p].pc = "reply" /\ req'[p].out = "created") =>
         LET n == req'[p]
             rows == {g \in groups' : g.name = n.name /\ g.guildId = n.guild}
         IN  /\ rows # {}
             /\ \A g \in rows :
                  /\ g.creatorId = n.user
                  /\ UsersOf(members', g.id) = {n.user}
                  /\ Copies(members', g.id, n.user) = 1]_vars

\* C4: when createGroup returns failure the table groups holds no row for the
\* group it was inserting and group_members no row of that group.
C4_CreateAtomic ==
  [][\A p \in Procs :
       (/\ req[p].cmd = "create" /\ req[p].pc \in {"lookup", "insgroup", "insmember"}
        /\ req'[p].pc = "reply" /\ req'[p].out = "failed"
        /\ req[p].gid # 0) =>
         /\ ~\E g \in groups' : g.id = req[p].gid
         /\ RowsOf(members', req[p].gid) = {}]_vars

\* C5: every group has at least one member whenever no leave request is in
\* progress; taken here at the states in which no request of any kind is in
\* progress.
C5_NoEmptyGroup ==
  (\A p \in Procs : req[p].pc = "idle") =>
    \A g \in groups : RowsOf(members, g.id) # {}

\* C6: run one after the other, a leave by a member of a group of several
\* members leaves the group in place with exactly the other members (A
\* creates, B joins, A leaves: the members are exactly B), and a leave by the
\* only member goes on to delete the membership rows and the group row, after
\* which the name of that one group is found no more.
C6_LeaveScenario ==
  [][\A p \in Procs :
       (req[p].cmd = "leave" /\ req'[p] # req[p]) =>
         LET r == req[p]
             n == req'[p]
             others == UsersOf(members, r.gid) \ {r.user}
         IN  /\ (r.pc = "remove" /\ others # {}) =>
                  /\ n.pc = "reply" /\ n.out = "left"
                  /\ groups' = groups
                  /\ \E g \in groups' : g.id = r.gid /\ g.name = r.name /\ g.guildId = r.guild
                  /\ UsersOf(members', r.gid) = others
             /\ (r.pc = "remove" /\ others = {}) =>
                  n.pc = "delmembers" /\ RowsOf(members', r.gid) = {}
             /\ r.pc = "delmembers" =>
                  n.pc = "delgroup" /\ RowsOf(members', r.gid) = {}
             /\ r.pc = "delgroup" =>
                  /\ n.pc = "reply" /\ n.out = "leftdeleted"
                  /\ ~\E g \in groups' : g.id = r.gid
                  /\ RowsOf(members', r.gid) = {}
                  /\ (\A g \in groups : (g.name = r.name /\ g.guildId = r.guild) => g.id = r.gid)
                       => ~NameTaken(groups', r.name, r.guild)]_vars

\* user 2, who created no group, is told that the group was deleted with the
\* leave: user 1 created it, user 2 joined, user 1 left, user 2 left
C6_Witness ==
  \E p \in Procs :
    /\ req[p].cmd = "leave" /\ req[p].pc = "reply" /\ req[p].out = "leftdeleted"
    /\ req[p].user = 2
    /\ <<2, "create">> \notin DOMAIN userTimeouts
    /\ groups = {} /\ members = EmptyBag

\* C7: a call of addMemberToGroup(g, u) that returns success leaves exactly
\* one row (g, u), also when a row (g, u) was there before the call.
C7_AddMemberIdempotent ==
  [][\A p \in Procs :
       (/\ req[p].cmd = "join" /\ req[p].pc = "insert"
        /\ req'[p].pc = "reply" /\ req'[p].out = "joined") =>
         Copies(members', req[p].gid, req[p].user) = 1]_vars

\* C8: group_members holds at most one row for each pair of group and user.
C8_NoDuplicateMembership ==
  \A r \in DOMAIN members : members[r] <= 1

\* C9: a create or ping of a user that succeeds comes at least the command's
\* timeout after the same user's previous successful use of the command.
C9_CooldownSeparation ==
  [][\A p \in Procs :
       (/\ req[p].pc # "reply" /\ req'[p].pc = "reply"
        /\ req'[p].out \in {"created", "pinged"}
        /\ <<req[p].user, req[p].cmd>> \in DOMAIN userTimeouts) =>
         now - userTimeouts[<<req[p].user, req[p].cmd>>] >=
           (IF req[p].cmd = "create" THEN CREATE_TIMEOUT ELSE PING_TIMEOUT) * MsPerSecond]_vars

\* C10: the check at the start of a create or ping request at time t: with no
\* entry for the user and command the request goes on; with an entry set at
\* t0 and t - t0 below the timeout D the reply is the wait of ceiling(D - (t -
\* t0)) seconds and the map is unchanged; with t - t0 >= D the request goes on
\* and the entry is removed.
C10_CheckCooldown ==
  [][\A p \in Procs :
       (req[p].pc = "idle" /\ req'[p].cmd \in {"create", "ping"}) =>
         LET n == req'[p]
             k == <<n.user, n.cmd>>
             D == (IF n.cmd = "create" THEN CREATE_TIMEOUT ELSE PING_TIMEOUT) * MsPerSecond
         IN  IF k \notin DOMAIN userTimeouts
             THEN n.pc = "lookup" /\ userTimeouts' = userTimeouts
             ELSE LET e == now - userTimeouts[k] IN
                  IF e < D
                  THEN /\ n.pc = "reply" /\ n.out = "cooldown"
                       /\ n.wait * MsPerSecond >= D - e
                       /\ (n.wait - 1) * MsPerSecond < D - e
                       /\ userTimeouts' = userTimeouts
                  ELSE /\ n.pc = "lookup"
                       /\ DOMAIN userTimeouts' = (DOMAIN userTimeouts) \ {k}
                       /\ \A j \in DOMAIN userTimeouts' : userTimeouts'[j] = userTimeouts[j]]_vars

\* a second after a create set the timeout the user is told to wait 299 s
C10_Witness ==
  \E p \in Procs :
    /\ req[p].cmd = "create" /\ req[p].pc = "reply" /\ req[p].out = "cooldown"
    /\ req[p].wait = CREATE_TIMEOUT - 1
    /\ now - userTimeouts[<<req[p].user, "create">>] = MsPerSecond

\* the time in the map for the user and command, 0 when there is no entry
Entry(tm, u, c) == IF <<u, c>> \in DOMAIN tm THEN tm[<<u, c>>] ELSE 0

\* the step of a create request in which createGroup returns a group
ArmingStep(p) ==
  /\ req[p].cmd = "create" /\ req[p].pc = "insmember"
  /\ req'[p].out = "created"
  /\ \E g \in groups' : g.id = req[p].gid
  /\ MemberRow(req[p].gid, req[p].user) \in DOMAIN members'

\* a create request starts that cannot succeed: the user is on the create
\* timeout, or the name is not valid
StartOfFailingCreate(p) ==
  /\ req[p].pc = "idle" /\ req'[p].cmd = "create"
  /\ \/ req'[p].out = "cooldown"
     \/ ~validateGroupName(Trim(req'[p].name))

\* C11 as stated: no step of a create request that fails changes the user's
\* create entry: not the start of a request that is bound to fail, and no
\* later step other than the one in which createGroup returns a group.
C11_Original ==
  [][\A p \in Procs :
       (\/ StartOfFailingCreate(p)
        \/ /\ req[p].cmd = "create" /\ req'[p] # req[p] /\ ~ArmingStep(p)) =>
         LET u == IF req[p].pc = "idle" THEN req'[p].user ELSE req[p].user
         IN  Entry(userTimeouts', u, "create") = Entry(userTimeouts, u, "create")]_vars

\* C11 amended: no step of a create request other than the one in which
\* createGroup returns a group sets the user's create entry; the entry is
\* left as it was, except that the check at the start removes an entry
\* whose timeout has run out.
C11_ArmOnlyOnSuccess ==
  [][\A p \in Procs :
       (\/ req[p].pc = "idle" /\ req'[p].cmd = "create"
        \/ /\ req[p].cmd = "create" /\ req'[p] # req[p] /\ ~ArmingStep(p)) =>
         LET u == IF req[p].pc = "idle" THEN req'[p].user ELSE req[p].user
             e == Entry(userTimeouts, u, "create")
         IN  \/ Entry(userTimeouts', u, "create") = e
             \/ /\ req[p].pc = "idle"
                /\ e # 0 /\ now - e >= CREATE_TIMEOUT * MsPerSecond
                /\ Entry(userTimeouts', u, "create") = 0]_vars

\* createGroup returned nothing because the insert of the creator failed
\* after the group was inserted, and the user has no create entry
C11_Witness ==
  \E p \in Procs :
    /\ req[p].cmd = "create" /\ req[p].pc = "reply" /\ req[p].out = "failed"
    /\ req[p].gid # 0
    /\ Entry(userTimeouts, req[p].user, "create") = 0

\* C12: a ping whose notification was not delivered (interaction.reply threw
\* and the router's catch has the request) leaves the user's ping entry
\* unset; with one request at a time nothing else can have set it.
C12_ArmAfterDelivery ==
  \A p \in Procs :
    (req[p].cmd = "ping" /\ req[p].pc = "catch" /\ req[p].out = "pinged") =>
      Entry(userTimeouts, req[p].user, "ping") = 0

RowCount(ms, gid) ==
  LET us == UsersOf(ms, gid) IN
  IF us = {} THEN 0
  ELSE BagCardinality([r \in {MemberRow(gid, u) : u \in us} |-> ms[r]])

\* C14: deleteGroup on a group of N members: its first statement removes the
\* N rows of that group from group_members and nothing else, the row of
\* groups still being there; its second statement removes that one row of
\* groups and nothing else.
C14_DeleteGroupFrame ==
  [][\A p \in Procs :
       LET gid == req[p].gid IN
       /\ (req[p].pc = "delmembers" /\ req'[p] # req[p]) =>
            /\ req'[p].pc = "delgroup"
            /\ groups' = groups
            /\ RowsOf(members', gid) = {}
            /\ BagCardinality(members') = BagCardinality(members) - RowCount(members, gid)
            /\ \A r \in DOMAIN members :
                 r.groupId # gid => r \in DOMAIN members' /\ members'[r] = members[r]
            /\ DOMAIN members' \subseteq DOMAIN members
       /\ (req[p].pc = "delgroup" /\ req'[p] # req[p]) =>
            /\ members' = members
            /\ groups' \subseteq groups
            /\ \A g \in groups : g \in groups' <=> g.id # gid
            /\ Cardinality(groups \ groups') = 1]_vars

\* an administrator's delete has removed a group and its rows while a second
\* group with its member is in the store
C14_Witness ==
  \E p \in Procs :
    /\ req[p].cmd = "delete" /\ req[p].pc = "reply" /\ req[p].out = "deleted"
    /\ ~\E g \in groups : g.id = req[p].gid
    /\ \E g \in groups : RowsOf(members, g.id) # {}

\* C15: deleteGroup called by handleDelete with an id for which groups holds
\* no row does not return success (the reply is not "has been deleted") and
\* leaves the two tables as they were.
C15_DeleteMissingNotFound ==
  [][\A p \in Procs :
       (/\ req[p].cmd = "delete" /\ req[p].pc = "delgroup" /\ req'[p] # req[p]
        /\ ~\E g \in groups : g.id = req[p].gid) =>
         /\ req'[p].out # "deleted"
         /\ groups' = groups /\ members' = members]_vars

\* C16: when deleteGroup has returned failure to handleDelete and the row of
\* groups is still there, the rows of that group in group_members are still
\* there too.
C16_DeleteGroupAtomic ==
  \A p \in Procs :
    (/\ req[p].cmd = "delete" /\ req[p].pc = "reply" /\ req[p].out = "deletefailed"
     /\ \E g \in groups : g.id = req[p].gid) =>
      RowsOf(members, req[p].gid) # {}

\* C17: the deleteGroup of a leave removes every row of the group, also the
\* row of a member who joined after the leave read the member list: its
\* first statement leaves no row of the group, whoever the rows belong to,
\* and its second removes the group unless a foreign key stops it; the leave
\* replies that the group was deleted.
C17_LeaveDestroysJoin ==
  [][\A p \in Procs :
       LET gid == req[p].gid IN
       /\ (req[p].cmd = "leave" /\ req[p].pc = "delmembers" /\ req'[p].pc = "delgroup") =>
            /\ RowsOf(members', gid) = {}
            /\ \A r \in DOMAIN members' : r \in DOMAIN members /\ members'[r] = members[r]
       /\ (req[p].cmd = "leave" /\ req[p].pc = "delgroup" /\ req'[p] # req[p]) =>
            /\ req'[p].pc = "reply" /\ req'[p].out = "leftdeleted"
            /\ (RowsOf(members, gid) = {} \/ ~fkOn) => ~\E g \in groups' : g.id = gid]_vars

\* the only member's leave has read a list of one member and removed its own
\* row; a join of another user to the same group has since been answered (no
\* other request is in flight) and that user's row is in the table; the next
\* step of the leave is deleteGroup
C17_Witness ==
  \E p \in Procs :
    /\ req[p].cmd = "leave" /\ req[p].pc = "delmembers"
    /\ DOMAIN req[p].cur = {req[p].user}
    /\ \E u \in Users \ {req[p].user} : Copies(members, req[p].gid, u) = 1
    /\ \A q \in Procs \ {p} : req[q].pc = "idle"
    /\ requestsLeft = 0

\* the names the documentation allows: 2 to 32 characters, each a letter, a
\* digit, the space, the hyphen or the underscore
DocumentedName(s) ==
  /\ Len(s) >= 2 /\ Len(s) <= 32
  /\ \A i \in 1..Len(s) : s[i] \in Letters \cup Digits \cup {"SP", "-", "_"}

\* C18: validateGroupName accepts exactly the documented names: createGroup,
\* which hands it the trimmed name, goes on to its insert exactly for those.
C18_ValidateGroupName ==
  [][\A p \in Procs :
       (/\ req[p].cmd = "create" /\ req[p].pc = "lookup" /\ req'[p] # req[p]
        /\ req'[p].out # "exists") =>
         (req'[p].pc = "insgroup" <=> DocumentedName(Trim(req[p].name)))]_vars

\* C19: a read that failed is not answered like a read that found nothing:
\* a request is told that the group does not exist only when groups holds no
\* row of that name in that guild, and a join goes on to its insert only
\* when group_members holds no row of the user in the group.
C19_ReadFailureDistinct ==
  [][\A p \in Procs :
       /\ (/\ req[p].cmd \in {"join", "leave", "ping", "delete"}
           /\ req[p].pc = "lookup" /\ req'[p] # req[p]
           /\ NameTaken(groups, req[p].name, req[p].guild)) =>
            req'[p].out # "nogroup"
       /\ (/\ req[p].cmd = "join" /\ req[p].pc = "ismember" /\ req'[p] # req[p]
           /\ Copies(members, req[p].gid, req[p].user) > 0) =>
            req'[p].pc # "insert"]_vars

\* C20: a delete request of a user without the administrator permission is
\* refused at once and no step of it changes a row of either table; a delete
\* request of an administrator for a stored group goes on to remove every
\* row of the group from group_members and then the group, whoever the
\* members are, and replies that the group has been deleted.
C20_AdminDelete ==
  [][\A p \in Procs :
       LET r == req[p]
           n == req'[p]
       IN
       /\ (r.pc = "idle" /\ n.cmd = "delete" /\ ~n.admin) =>
            n.pc = "reply" /\ n.out = "denied"
       /\ ((r.cmd = "delete" /\ ~r.admin) \/ (n.cmd = "delete" /\ ~n.admin)) =>
            groups' = groups /\ members' = members
       /\ (r.pc = "idle" /\ n.cmd = "delete" /\ n.admin) => n.pc = "lookup"
       /\ (r.cmd = "delete" /\ r.admin /\ n # r) =>
            /\ (r.pc = "lookup" /\ NameTaken(groups, r.name, r.guild)) =>
                 /\ n.pc = "delmembers"
                 /\ \E g \in groups : g.id = n.gid /\ g.name = r.name /\ g.guildId = r.guild
            /\ r.pc = "delmembers" =>
                 n.pc = "delgroup" /\ RowsOf(members', r.gid) = {}
            /\ r.pc = "delgroup" =>
                 /\ n.pc = "reply" /\ n.out = "deleted"
                 /\ ~\E g \in groups' : g.id = r.gid
                 /\ RowsOf(members', r.gid) = {}]_vars

\* after one create and one delete the store is empty: an administrator who
\* created no group, and so is no member of it, has deleted the group
C20_Witness ==
  \E p \in Procs :
    /\ req[p].cmd = "delete" /\ req[p].pc = "reply" /\ req[p].out = "deleted"
    /\ req[p].admin
    /\ Entry(userTimeouts, req[p].user, "create") = 0
    /\ requestsLeft = SeqRequests - 2
    /\ groups = {} /\ members = EmptyBag

\* the step of a request in which isOnTimeout is called
CheckStep(p) == req[p].pc = "idle" /\ req'[p].cmd \in {"create", "ping"}

\* the step of a request in which setTimeout is called
ArmStep(p) ==
  \/ req[p].cmd = "create" /\ req[p].pc = "insmember" /\ req'[p].out = "created"
  \/ req[p].cmd = "ping" /\ req[p].pc = "members" /\ req'[p].pc = "reply"

\* the map is the same for every user and command but the given one
SameButFor(u, c) ==
  \A k \in (DOMAIN userTimeouts \cup DOMAIN userTimeouts') \ {<<u, c>>} :
    /\ k \in DOMAIN userTimeouts /\ k \in DOMAIN userTimeouts'
    /\ userTimeouts'[k] = userTimeouts[k]

\* C21: the timeouts and the registry share no state. A step in which a
\* handler calls neither isOnTimeout nor setTimeout, whatever registry
\* operation it runs, leaves the map of timeouts as it was; the step of
\* isOnTimeout leaves every row of both tables as it was; in the step of
\* setTimeout the tables change by the registry operation of that step alone
\* (the creator's row is added, or nothing) and the map changes in the
\* request's own entry alone, which becomes the current time.
C21_NoSharedState ==
  [][\A p \in Procs :
       req'[p] # req[p] =>
         /\ (~CheckStep(p) /\ ~ArmStep(p)) => userTimeouts' = userTimeouts
         /\ CheckStep(p) => groups' = groups /\ members' = members
         /\ ArmStep(p) =>
              /\ groups' = groups
              /\ IF req[p].cmd = "create"
                 THEN /\ Copies(members', req[p].gid, req[p].user) =
                           Copies(members, req[p].gid, req[p].user) + 1
                      /\ \A r \in DOMAIN members : members'[r] >= members[r]
                      /\ BagCardinality(members') = BagCardinality(members) + 1
                 ELSE members' = members
              /\ Entry(userTimeouts', req[p].user, req[p].cmd) = now
              /\ SameButFor(req[p].user, req[p].cmd)]_vars

\* a ping has set the user's timeout while the user's create timeout and the
\* group with its members are in place
C21_Witness ==
  \E p \in Procs :
    /\ req[p].cmd = "ping" /\ req[p].pc = "reply" /\ req[p].out = "pinged"
    /\ Entry(userTimeouts, req[p].user, "ping") = now
    /\ Entry(userTimeouts, req[p].user, "create") # 0
    /\ \E g \in groups : g.id = req[p].gid /\ Copies(members, g.id, req[p].user) = 1

\* C22: timeouts are kept for each pair of user and command. The steps that
\* call isOnTimeout and setTimeout for a pair leave the entry of every other
\* pair as it was, and the check of a pair reads that pair's entry alone,
\* against the duration of its own command: the request is told to wait
\* exactly when the pair has an entry younger than CREATE_TIMEOUT for a
\* create and PING_TIMEOUT for a ping.
C22_PerUserAndCommand ==
  [][\A p \in Procs :
       /\ CheckStep(p) =>
            LET n == req'[p]
                e == Entry(userTimeouts, n.user, n.cmd)
                D == IF n.cmd = "create" THEN CREATE_TIMEOUT ELSE PING_TIMEOUT
            IN  /\ SameButFor(n.user, n.cmd)
                /\ n.out = "cooldown" <=> (e # 0 /\ now - e < D * MsPerSecond)
       /\ (req'[p] # req[p] /\ ArmStep(p)) =>
            SameButFor(req[p].user, req[p].cmd)]_vars

\* a ping passes its check while the same user's create timeout is running
C22_Witness ==
  \E p \in Procs :
    /\ req[p].cmd = "ping" /\ req[p].pc = "lookup"
    /\ Entry(userTimeouts, req[p].user, "create") # 0
    /\ now - Entry(userTimeouts, req[p].user, "create") < CREATE_TIMEOUT * MsPerSecond
    /\ now - Entry(userTimeouts, req[p].user, "create") >= PING_TIMEOUT * MsPerSecond

\* C23: removeMemberFromGroup(g, u) returns success whether or not a row
\* (g, u) is there; afterwards no row (g, u) is there and every other row of
\* group_members and every row of groups is as before, so that with no row
\* (g, u) before the call nothing changes.
C23_RemoveMember ==
  [][\A p \in Procs :
       (req[p].cmd = "leave" /\ req[p].pc = "remove" /\ req'[p] # req[p]) =>
         /\ req'[p].out # "leavefailed"
         /\ groups' = groups
         /\ Copies(members', req[p].gid, req[p].user) = 0
         /\ DOMAIN members' \subseteq DOMAIN members
         /\ \A r \in DOMAIN members :
              (r.groupId # req[p].gid \/ r.userId # req[p].user) =>
                r \in DOMAIN members' /\ members'[r] = members[r]
         /\ Copies(members, req[p].gid, req[p].user) = 0 => members' = members]_vars

\* two overlapping leaves of one user from one group have both been told
\* that the user left: the second removeMemberFromGroup found no row, and
\* the other member's row is still there
C23_Witness ==
  \E p, q \in Procs :
    /\ p # q
    /\ req[p].cmd = "leave" /\ req[p].pc = "reply" /\ req[p].out = "left"
    /\ req[q].cmd = "leave" /\ req[q].pc = "reply" /\ req[q].out = "left"
    /\ req[p].user = req[q].user /\ req[p].gid = req[q].gid
    /\ Copies(members, req[p].gid, req[p].user) = 0
    /\ RowsOf(members, req[p].gid) # {}

\* the step in which getGuildGroups hands its result to handleList
ListGroupsStep(p) ==
  /\ req[p].cmd = "list" /\ req[p].pc = "guildgroups"
  /\ req'[p].cmd = "list" /\ req'[p].pc \in {"counts", "reply"}

\* the groups of a guild in a table
GroupsOfGuild(gs, guild) == {g \in gs : g.guildId = guild}

\* C24: the list that getGuildGroups returns holds exactly the groups of the
\* given guild, each of them once, in ascending order of lastUsed; it is
\* empty only when the guild has no group.
C24_GuildGroups ==
  [][\A p \in Procs : ListGroupsStep(p) =>
       LET s == IF req'[p].pc = "counts" THEN req'[p].cur ELSE <<>> IN
       /\ {s[i] : i \in 1..Len(s)} = GroupsOfGuild(groups, req[p].guild)
       /\ Len(s) = Cardinality(GroupsOfGuild(groups, req[p].guild))
       /\ \A i, j \in 1..Len(s) : i < j => s[i].lastUsed <= s[j].lastUsed]_vars

\* a listing of two groups in which the older group comes second because a
\* ping has used it since the newer one was created
C24_Witness ==
  \E p \in Procs :
    /\ req[p].cmd = "list" /\ req[p].pc = "counts"
    /\ Len(req[p].cur) = 2
    /\ req[p].cur[1].id > req[p].cur[2].id
    /\ req[p].cur[1].lastUsed < req[p].cur[2].lastUsed

\* the step in which updateGroupLastUsed returns to a ping that goes on to
\* read the members and send the notification
PingTouchStep(p) ==
  /\ req[p].cmd = "ping" /\ req[p].pc = "touch"
  /\ req'[p].cmd = "ping" /\ req'[p].pc = "members"

\* C25: a ping that notifies a group sets the lastUsed of that group to the
\* current time and leaves the lastUsed of every other group as it was.
C25_PingSetsLastUsed ==
  [][\A p \in Procs : PingTouchStep(p) =>
       \A g \in groups :
         /\ g.id = req[p].gid => [g EXCEPT !.lastUsed = now] \in groups'
         /\ g.id # req[p].gid => g \in groups']_vars

\* a value that is a number: one or more decimal digits
IsNumber(s) ==
  Len(s) >= 1 /\ \A i \in 1..Len(s) : s[i] \in DecimalDigits

\* the duration the configuration table gives for a command: the number the
\* variable is set to, the default when it is unset or not a number
DocumentedSeconds(c) ==
  LET s == IF c = "create" THEN env.processEnv.CREATE_TIMEOUT
           ELSE env.processEnv.PING_TIMEOUT
  IN  IF IsNumber(s) THEN DecimalValue(s)
      ELSE IF c = "create" THEN CREATE_TIMEOUT ELSE PING_TIMEOUT

\* C26: the cooldown of a create lasts the number of seconds CREATE_TIMEOUT
\* is set to when that is a number and 300 seconds when it is unset or not a
\* number, and the cooldown of a ping lasts PING_TIMEOUT seconds or 60 in the
\* same way: a request is told to wait exactly when the user's entry for the
\* command is younger than that duration.
C26_ConfiguredDuration ==
  [][\A p \in Procs : CheckStep(p) =>
       LET n == req'[p]
           e == Entry(userTimeouts, n.user, n.cmd)
       IN  n.out = "cooldown" <=>
             (e # 0 /\ now - e < DocumentedSeconds(n.cmd) * MsPerSecond)]_vars

\* the request in slot p is answered with the message `out` and no row of
\* either table changes
RejectedWith(p, out) ==
  /\ req'[p].pc = "reply" /\ req'[p].out = out
  /\ groups' = groups /\ members' = members

\* C27: the handlers' presence checks guard the mutations. When the check of
\* a join finds the user holding a membership of the group the join is
\* rejected, when the check of a leave finds no membership the leave is
\* rejected, and a join or leave whose name matches no group of the guild is
\* rejected; each rejection leaves every row of groups and group_members as
\* it was.
C27_PresenceGuards ==
  [][\A p \in Procs : req'[p] # req[p] =>
       /\ (At(p, "join", "ismember") /\ HasMember(members, req[p].gid, req[p].user))
            => RejectedWith(p, "already")
       /\ (At(p, "leave", "ismember") /\ ~HasMember(members, req[p].gid, req[p].user))
            => RejectedWith(p, "notmember")
       /\ (req[p].cmd \in {"join", "leave"} /\ req[p].pc = "lookup"
           /\ RowsByName(groups, req[p].name, req[p].guild) = {})
            => RejectedWith(p, "nogroup")]_vars

\* C28: only a member can ping a group. When the check of a ping finds no
\* membership of the user in the group the ping is answered "not a member",
\* and neither that step nor the reply that follows it changes a row of
\* groups or an entry of the timeouts; the notification of a ping that
\* passed the check mentions exactly the users that hold a row of the group
\* at the moment getGroupMembers returns.
C28_OnlyMembersPing ==
  [][\A p \in Procs : req'[p] # req[p] =>
       /\ (At(p, "ping", "ismember") /\ Copies(members, req[p].gid, req[p].user) = 0)
            => /\ req'[p].pc = "reply" /\ req'[p].out = "notmember"
               /\ groups' = groups /\ userTimeouts' = userTimeouts
       /\ (req[p].cmd = "ping" /\ req[p].out = "notmember")
            => /\ req'[p].pc \in {"idle", "catch", "swallowed"}
               /\ groups' = groups /\ userTimeouts' = userTimeouts
       /\ At(p, "ping", "members")
            => /\ req'[p].pc = "reply" /\ req'[p].out = "pinged"
               /\ BagToSet(req'[p].cur) = UsersOf(members, req[p].gid)]_vars

\* a notification on its way that does not mention the user who sent the
\* ping, because that user left the group after the ping passed its check
C28_Witness ==
  \E p \in Procs :
    /\ req[p].cmd = "ping" /\ req[p].pc = "reply" /\ req[p].out = "pinged"
    /\ req[p].cur # EmptyBag
    /\ req[p].user \notin BagToSet(req[p].cur)

\* C29: a create whose name, once trimmed, is not a documented name (its
\* length is outside 2..32 or it holds a character other than a letter, a
\* digit, the space, the hyphen and the underscore) inserts nothing: no step
\* of the request changes a row of groups or group_members, and the request
\* is not answered as created.
C29_InvalidNameInsertsNothing ==
  [][\A p \in Procs :
       (/\ req[p].cmd = "create" /\ req'[p] # req[p]
        /\ ~DocumentedName(Trim(req[p].name))) =>
         /\ groups' = groups /\ members' = members
         /\ req'[p].out # "created"]_vars

\* the step in which getUserGuildGroups hands its result to the autocomplete
\* of ping or leave
UserGroupsStep(p) ==
  /\ req[p].cmd = "autocomplete" /\ req[p].pc = "usergroups"
  /\ req[p].out \in {"ping", "leave"}
  /\ req'[p].pc = "respond"

\* C30: the list that getUserGuildGroups returns holds exactly the groups of
\* the guild in which the user holds a membership, each of them once, in
\* ascending order of lastUsed.
C30_UserGuildGroups ==
  [][\A p \in Procs : UserGroupsStep(p) =>
       LET s == req'[p].cur
           mine == {g \in GroupsOfGuild(groups, req[p].guild) :
                      Copies(members, g.id, req[p].user) > 0}
       IN  /\ {s[i] : i \in 1..Len(s)} = mine
           /\ Len(s) = Cardinality(mine)
           /\ \A i, j \in 1..Len(s) : i < j => s[i].lastUsed <= s[j].lastUsed]_vars

\* the map of timeouts without the entry of a user and command
WithoutEntry(tm, u, c) == [k \in (DOMAIN tm) \ {<<u, c>>} |-> tm[k]]

\* C31: a check that answers "on timeout" leaves the map of timeouts as it
\* was, so a blocked attempt neither extends nor resets the timeout; the map
\* changes only in a step that calls setTimeout and in a check that finds
\* the entry of its user and command run out and deletes that entry.
C31_BlockedCheckChangesNothing ==
  [][/\ \A p \in Procs :
          (CheckStep(p) /\ req'[p].out = "cooldown") => userTimeouts' = userTimeouts
     /\ userTimeouts' # userTimeouts =>
          \E p \in Procs :
            \/ req'[p] # req[p] /\ ArmStep(p)
            \/ /\ CheckStep(p) /\ req'[p].out # "cooldown"
               /\ Entry(userTimeouts, req'[p].user, req'[p].cmd) # 0
               /\ Entry(userTimeouts, req'[p].user, req'[p].cmd) < now
               /\ userTimeouts' = WithoutEntry(userTimeouts, req'[p].user, req'[p].cmd)]_vars

\* a request told to wait some time after the timeout was set, the entry
\* still holding the time at which it was set
C31_Witness ==
  \E p \in Procs :
    /\ req[p].pc = "reply" /\ req[p].out = "cooldown" /\ req[p].wait > 0
    /\ Entry(userTimeouts, req[p].user, req[p].cmd) # 0
    /\ Entry(userTimeouts, req[p].user, req[p].cmd) < now

\* a step in which a storage statement throws inside a registry operation
\* called by the request in slot p
FailingStep(p) == faultsLeft' < faultsLeft /\ req'[p] # req[p]

\* C32: no registry operation lets a storage failure escape as an exception.
\* In every step in which a storage statement throws, the operation returns
\* to its handler: the request goes on in the handler or to the handler's
\* own reply, never to the router's catch and never to a rejected listener,
\* and no row of either table has changed.
C32_NoFailurePropagates ==
  [][\A p \in Procs : FailingStep(p) =>
       /\ req'[p].pc \notin {"catch", "rejected", "idle"}
       /\ req'[p].cmd = req[p].cmd
       /\ groups' = groups /\ members' = members]_vars

\* a request answered "This group doesn't exist!" while the group is stored:
\* getGroupByName has returned undefined for a query that threw
C32_Witness ==
  \E p \in Procs :
    /\ req[p].pc = "reply" /\ req[p].out = "nogroup"
    /\ faultsLeft < MaxFaults
    /\ RowsByName(groups, req[p].name, req[p].guild) # {}

\* C33: with create requests that do not overlap and no storage failure, the
\* availability check of handleCreate is made on the name createGroup
\* stores: a create request that reaches the check with a name whose trimmed
\* form is the stored name of a group of the guild is answered that the name
\* is taken, and no two groups of a guild come to share a stored name.
C33_CheckOnStoredName ==
  [][\A p \in Procs :
       (/\ req[p].cmd = "create" /\ req[p].pc = "lookup" /\ req'[p] # req[p]
        /\ NameTaken(groups, Trim(req[p].name), req[p].guild)) =>
         /\ req'[p].pc = "reply" /\ req'[p].out = "exists"
         /\ \A g1, g2 \in groups' :
              (g1.name = g2.name /\ g1.guildId = g2.guildId) => g1.id = g2.id]_vars

\* C34: whenever handleLeave is about to reply that the group was deleted as
\* it has no more members, the store holds neither the row of that group
\* nor a row of group_members for it.
C34_LeftAndDeleted ==
  \A p \in Procs :
    (req[p].cmd = "leave" /\ req[p].pc = "reply" /\ req[p].out = "leftdeleted") =>
      /\ ~\E g \in groups : g.id = req[p].gid
      /\ RowsOf(members, req[p].gid) = {}

\* the step in which the join in slot p inserts its row of group_members
JoinInsertsRow(p) ==
  /\ req[p].cmd = "join" /\ req[p].pc = "insert"
  /\ members' # members

\* C35: a join request for a name in a guild inserts its row only into a
\* group that has that name in that guild at the moment of the insert,
\* whatever deletes and creates have run since the join looked the group up.
C35_JoinInsertsIntoNamedGroup ==
  [][\A p \in Procs : JoinInsertsRow(p) =>
       \E g \in groups :
         /\ g.id = req[p].gid
         /\ g.name = req[p].name /\ g.guildId = req[p].guild]_vars

\* the commands that have a handler
HandlerCommands == {"create", "join", "leave", "list", "members", "ping", "delete"}

\* every invocation of a handler comes to its end
HandlersTerminate ==
  \A p \in Procs : (req[p].cmd \in HandlerCommands) ~> (req[p].pc = "idle")

====
